---- MODULE Spec2Model ----
(***************************************************************************)
(* Model of resume_analyzer.py: the ResumeAnalyzer class (catalog loading, *)
(* skill matching, suggestions, report formatting) and the main() command. *)
(*                                                                         *)
(* A Python str is a sequence of one-character strings; a dict is the      *)
(* sequence of its <<key, value>> items in insertion order with distinct   *)
(* keys; a list is a sequence.                                             *)
(***************************************************************************)
EXTENDS Integers, Sequences, FiniteSets, TLC

VARIABLES
    pc,            \* position of the caller / of main
    skills_db,     \* ResumeAnalyzer.skills_db
    text,          \* the text handed to analyze_skills
    skill_counts,  \* the mapping handed to / returned by the methods
    suggestions,   \* the list handed to / returned by suggest_improvements
    report,        \* the lines joined by generate_report
    env,           \* what main finds: arguments and files
    stdout,        \* what main has printed, in order
    exit_status    \* the status main's process ends with (-1: still running)

vars == <<pc, skills_db, text, skill_counts, suggestions, report, env, stdout,
          exit_status>>

(***************************************************************************)
(* Bounds of the model.                                                    *)
(***************************************************************************)
MaxCats == 2
MaxEntries == 6
MaxTextLen == 2
MaxCount == 2
MaxKeys == 3
MaxSuggestions == 2

Min(a, b) == IF a < b THEN a ELSE b

SeqsUpTo(S, n) == UNION {[1..k -> S] : k \in 0..n}

NoDup(s) == \A i, j \in DOMAIN s : s[i] = s[j] => i = j

Range(s) == {s[i] : i \in DOMAIN s}

(***************************************************************************)
(* str                                                                     *)
(***************************************************************************)
LowerChars == {"a", "b"}

UpperCase ==
    <<"A", "B", "C", "D", "E", "F", "G", "H", "I", "J", "K", "L", "M",
      "N", "O", "P", "Q", "R", "S", "T", "U", "V", "W", "X", "Y", "Z">>

LowerCase ==
    <<"a", "b", "c", "d", "e", "f", "g", "h", "i", "j", "k", "l", "m",
      "n", "o", "p", "q", "r", "s", "t", "u", "v", "w", "x", "y", "z">>

IsIn(c, alphabet) == \E i \in DOMAIN alphabet : alphabet[i] = c

IndexIn(c, alphabet) == CHOOSE i \in DOMAIN alphabet : alphabet[i] = c

\* str.lower() on one character
LowerChar(c) ==
    IF IsIn(c, UpperCase) THEN LowerCase[IndexIn(c, UpperCase)] ELSE c

\* str.lower()
Lower(s) == IF s = <<>> THEN <<>> ELSE [i \in 1..Len(s) |-> LowerChar(s[i])]

\* `sub in s` on two str
Contains(s, sub) ==
    \E i \in 0..(Len(s) - Len(sub)) : SubSeq(s, i + 1, i + Len(sub)) = sub

\* ord()
Ord(c) ==
    IF IsIn(c, UpperCase) THEN 64 + IndexIn(c, UpperCase)
    ELSE IF IsIn(c, LowerCase) THEN 96 + IndexIn(c, LowerCase)
    ELSE CASE c = " " -> 32
           [] c = "+" -> 43
           [] c = "," -> 44
           [] c = "/" -> 47

\* s < t on two str: code points, left to right, a proper prefix first
RECURSIVE StrLess(_, _)
StrLess(s, t) ==
    IF t = <<>> THEN FALSE
    ELSE IF s = <<>> THEN TRUE
    ELSE IF Head(s) # Head(t) THEN Ord(Head(s)) < Ord(Head(t))
    ELSE StrLess(Tail(s), Tail(t))

\* sep.join(parts)
RECURSIVE Join(_, _)
Join(parts, sep) ==
    IF parts = <<>> THEN <<>>
    ELSE IF Len(parts) = 1 THEN parts[1]
    ELSE parts[1] \o sep \o Join(Tail(parts), sep)

CommaSpace == <<",", " ">>

\* list[:n]
Slice(s, n) == SubSeq(s, 1, Min(n, Len(s)))

(***************************************************************************)
(* dict / defaultdict(int)                                                 *)
(***************************************************************************)
\* the keys, in insertion order
KeySeq(d) == [i \in 1..Len(d) |-> d[i][1]]

\* the key set
Keys(d) == {d[i][1] : i \in DOMAIN d}

\* `k in d`
Has(d, k) == k \in Keys(d)

\* d[k] for a key of d
Get(d, k) == d[CHOOSE i \in DOMAIN d : d[i][1] = k][2]

\* d[k] += 1 on a defaultdict(int)
Incr(d, k) ==
    IF Has(d, k)
    THEN [i \in 1..Len(d) |-> IF d[i][1] = k THEN <<k, d[i][2] + 1>> ELSE d[i]]
    ELSE Append(d, <<k, 1>>)

(***************************************************************************)
(* The catalogs and texts the model draws from.  A catalog is the item     *)
(* sequence of a dict from category name to a list of skill names; each    *)
(* item records the category, the Python type of its value and the skills  *)
(* iterating over the value yields.                                        *)
(***************************************************************************)
SkillNames == {<<>>, <<"A">>, <<"a">>, <<"A", "b">>}

CategoryNames == <<"Programming", "Data", "ML/AI">>

SkillLists == {s \in SeqsUpTo(SkillNames, Min(MaxEntries, Cardinality(SkillNames))) : NoDup(s)}

RECURSIVE Entries(_)
Entries(lists) ==
    IF lists = <<>> THEN 0 ELSE Len(Head(lists)) + Entries(Tail(lists))

Catalogs ==
    {[i \in 1..Len(lists) |-> [category |-> CategoryNames[i], type |-> "list", skills |-> lists[i]]] :
        lists \in {l \in SeqsUpTo(SkillLists, MaxCats) : Entries(l) <= MaxEntries}}

Texts == SeqsUpTo(LowerChars, MaxTextLen)

(***************************************************************************)
(* DEFAULT_SKILLS (lines 11-17)                                            *)
(***************************************************************************)
DEFAULT_SKILLS ==
    <<[category |-> "Programming", type |-> "list", skills |-> <<
          <<"P", "y", "t", "h", "o", "n">>,
          <<"J", "a", "v", "a">>,
          <<"C", "+", "+">>,
          <<"J", "a", "v", "a", "S", "c", "r", "i", "p", "t">>,
          <<"S", "Q", "L">>,
          <<"R">>,
          <<"G", "o">>>>],
      [category |-> "Data", type |-> "list", skills |-> <<
          <<"S", "Q", "L">>,
          <<"N", "o", "S", "Q", "L">>,
          <<"S", "p", "a", "r", "k">>,
          <<"P", "a", "n", "d", "a", "s">>,
          <<"T", "a", "b", "l", "e", "a", "u">>,
          <<"P", "o", "w", "e", "r", "B", "I">>,
          <<"E", "x", "c", "e", "l">>>>],
      [category |-> "ML/AI", type |-> "list", skills |-> <<
          <<"M", "a", "c", "h", "i", "n", "e", " ", "L", "e", "a", "r", "n", "i", "n", "g">>,
          <<"D", "e", "e", "p", " ", "L", "e", "a", "r", "n", "i", "n", "g">>,
          <<"T", "e", "n", "s", "o", "r", "F", "l", "o", "w">>,
          <<"P", "y", "T", "o", "r", "c", "h">>,
          <<"N", "L", "P">>>>],
      [category |-> "DevOps", type |-> "list", skills |-> <<
          <<"D", "o", "c", "k", "e", "r">>,
          <<"K", "u", "b", "e", "r", "n", "e", "t", "e", "s">>,
          <<"A", "W", "S">>,
          <<"A", "z", "u", "r", "e">>,
          <<"C", "I", "/", "C", "D">>,
          <<"T", "e", "r", "r", "a", "f", "o", "r", "m">>>>],
      [category |-> "Soft Skills", type |-> "list", skills |-> <<
          <<"L", "e", "a", "d", "e", "r", "s", "h", "i", "p">>,
          <<"C", "o", "m", "m", "u", "n", "i", "c", "a", "t", "i", "o", "n">>,
          <<"T", "e", "a", "m", "w", "o", "r", "k">>,
          <<"P", "r", "o", "b", "l", "e", "m", " ", "S", "o", "l", "v", "i", "n", "g">>>>]>>

(***************************************************************************)
(* ResumeAnalyzer.analyze_skills                                           *)
(***************************************************************************)
\* variant: the skill name is compared as written, without .lower()
RECURSIVE CountSkillsCaseSensitive(_, _, _)
CountSkillsCaseSensitive(skills, t, counts) ==
    IF skills = <<>> THEN counts
    ELSE CountSkillsCaseSensitive(Tail(skills), t,
                                  IF Contains(t, Head(skills))
                                  THEN Incr(counts, Head(skills))
                                  ELSE counts)

\* variant: the operands of `in` are swapped (text in skill.lower())
RECURSIVE CountSkillsSwapped(_, _, _)
CountSkillsSwapped(skills, t, counts) ==
    IF skills = <<>> THEN counts
    ELSE CountSkillsSwapped(Tail(skills), t,
                            IF Contains(Lower(Head(skills)), t)
                            THEN Incr(counts, Head(skills))
                            ELSE counts)

\* the inner loop: for skill in skills
RECURSIVE CountSkills(_, _, _)
CountSkills(skills, t, counts) ==
    IF skills = <<>> THEN counts
    ELSE CountSkills(Tail(skills), t,
                     IF Contains(t, Lower(Head(skills)))
                     THEN Incr(counts, Head(skills))
                     ELSE counts)

\* the outer loop: for category, skills in self.skills_db.items()
RECURSIVE CountCategories(_, _, _)
CountCategories(db, t, counts) ==
    IF db = <<>> THEN counts
    ELSE CountCategories(Tail(db), t, CountSkills(Head(db).skills, t, counts))

analyze_skills(db, t) == CountCategories(db, t, <<>>)

CatalogSkills(db) == UNION {Range(db[i].skills) : i \in DOMAIN db}

(***************************************************************************)
(* ResumeAnalyzer.suggest_improvements                                     *)
(***************************************************************************)
\* found_skills = [s for s in skills if s in skill_counts]
FoundSkills(skills, counts) == SelectSeq(skills, LAMBDA s : Has(counts, s))

\* variant: the candidates are not filtered
NotFoundSkillsUnfiltered(skills, found) == skills

\* [s for s in skills if s not in found_skills]
NotFoundSkills(skills, found) == SelectSeq(skills, LAMBDA s : s \notin Range(found))

\* the suggestion appended when no skill of the category is found
MissingSuggestion(category, skills) ==
    [kind |-> "Missing", category |-> category,
     named |-> Join(Slice(skills, 3), CommaSpace)]

\* the suggestion appended when fewer than 2 skills of the category are found
FewSuggestion(category, skills, found) ==
    [kind |-> "Few", category |-> category,
     named |-> Join(Slice(NotFoundSkills(skills, found), 2), CommaSpace)]

\* variant: the sparse threshold is off by one (len(found_skills) <= 2)
SuggestCategoryOffByOne(c, counts, sugg) ==
    LET found == FoundSkills(c.skills, counts) IN
    IF found = <<>> THEN Append(sugg, MissingSuggestion(c.category, c.skills))
    ELSE IF Len(found) <= 2 THEN Append(sugg, FewSuggestion(c.category, c.skills, found))
    ELSE sugg

\* one iteration of the loop over self.skills_db.items()
SuggestCategory(c, counts, sugg) ==
    LET found == FoundSkills(c.skills, counts) IN
    IF found = <<>> THEN Append(sugg, MissingSuggestion(c.category, c.skills))
    ELSE IF Len(found) < 2 THEN Append(sugg, FewSuggestion(c.category, c.skills, found))
    ELSE sugg

RECURSIVE SuggestCategories(_, _, _)
SuggestCategories(db, counts, sugg) ==
    IF db = <<>> THEN sugg
    ELSE SuggestCategories(Tail(db), counts, SuggestCategory(Head(db), counts, sugg))

suggest_improvements(db, counts) == SuggestCategories(db, counts, <<>>)

(***************************************************************************)
(* ResumeAnalyzer.generate_report.  The report is the list of lines that   *)
(* "\n".join receives; a line is a record naming its fixed text (kind) and *)
(* the values interpolated into it.                                        *)
(***************************************************************************)
\* variant: the count is not negated in the key
ItemLessAscendingCount(x, y) ==
    \/ x[2] < y[2]
    \/ x[2] = y[2] /\ StrLess(x[1], y[1])

\* key=lambda x: (-x[1], x[0]) compared with <
ItemLess(x, y) ==
    \/ -x[2] < -y[2]
    \/ -x[2] = -y[2] /\ StrLess(x[1], y[1])

\* sorted() is stable: an item goes before the first item its key is less than
RECURSIVE InsertItem(_, _)
InsertItem(x, sorted) ==
    IF sorted = <<>> THEN <<x>>
    ELSE IF ItemLess(x, Head(sorted)) THEN <<x>> \o sorted
    ELSE <<Head(sorted)>> \o InsertItem(x, Tail(sorted))

RECURSIVE SortedInto(_, _)
SortedInto(items, sorted) ==
    IF items = <<>> THEN sorted
    ELSE SortedInto(Tail(items), InsertItem(Head(items), sorted))

\* sorted(skill_counts.items(), key=...)
SortedItems(counts) == SortedInto(counts, <<>>)

\* f"* {skill}: {count} mention{'s' if count > 1 else ''}"
SkillLine(item) ==
    [kind |-> "Skill", skill |-> item[1], count |-> item[2],
     suffix |-> IF item[2] > 1 THEN "s" ELSE ""]

\* lines 71-75
SkillSection(counts) ==
    IF counts = <<>> THEN <<[kind |-> "NoSkills"]>>
    ELSE [i \in 1..Len(counts) |-> SkillLine(SortedItems(counts)[i])]

\* lines 77-81
SuggestionSection(sugg) ==
    IF sugg # <<>> THEN <<[kind |-> "SuggestionsHeader"]>> \o sugg
    ELSE <<[kind |-> "GoodJob"]>>

\* variant: the report ends after the "no skills" line
generate_reportEarlyReturn(counts, sugg) ==
    IF counts = <<>>
    THEN <<[kind |-> "SkillAnalysisHeader"], [kind |-> "NoSkills"]>>
    ELSE <<[kind |-> "SkillAnalysisHeader"]>> \o SkillSection(counts) \o SuggestionSection(sugg)

generate_report(counts, sugg) ==
    <<[kind |-> "SkillAnalysisHeader"]>> \o SkillSection(counts) \o SuggestionSection(sugg)

NoEnv == [resume |-> "none"]

InitMatch ==
    /\ pc = "match"
    /\ skills_db \in Catalogs \cup {DEFAULT_SKILLS}
    /\ text \in Texts \cup {<<"s", "q", "l">>}
    /\ skill_counts = <<>>
    /\ suggestions = <<>>
    /\ report = <<>>
    /\ env = NoEnv
    /\ stdout = <<>>
    /\ exit_status = -1

AnalyzeSkills ==
    /\ pc = "match"
    /\ skill_counts' = analyze_skills(skills_db, text)
    /\ pc' = "matched"
    /\ UNCHANGED <<skills_db, text, suggestions, report, env, stdout, exit_status>>

SpecMatch == InitMatch /\ [][AnalyzeSkills]_vars

\* sub occurs in s: some stretch s[i+1..j] of s is sub
Occurs(sub, s) == \E i, j \in 0..Len(s) : i <= j /\ SubSeq(s, i + 1, j) = sub

\* C1: every value of the mapping analyze_skills returns is exactly 1, also for
\* a skill that the catalog lists in two categories.
C1_EveryCountIsOne ==
    pc = "matched" => \A i \in DOMAIN skill_counts : skill_counts[i][2] = 1

\* C2: the keys of analyze_skills(T) are exactly the catalog's skill names, as
\* the catalog spells them, whose lowercased form occurs in T; each is a key once.
C2_KeysAreOccurringSkills ==
    pc = "matched" =>
        /\ Keys(skill_counts) =
               {s \in CatalogSkills(skills_db) : Occurs(Lower(s), text)}
        /\ NoDup(KeySeq(skill_counts))

\* a skill spelled with a capital is a key because its lowercased form occurs
\* inside a longer text, while another skill of the catalog is not a key
C2_Witness ==
    /\ pc = "matched"
    /\ \E s \in Keys(skill_counts) :
           s # <<>> /\ Lower(s) # s /\ Len(text) > Len(s)
    /\ CatalogSkills(skills_db) \ Keys(skill_counts) # {}

\* C10 as claimed: on the empty text analyze_skills returns the empty mapping,
\* whatever the catalog's skill names are.
C10_EmptyTextEmptyMapping ==
    (pc = "matched" /\ text = <<>>) => skill_counts = <<>>

\* C10 as amended: on the empty text the only key analyze_skills can return is
\* the empty skill name, which is a key exactly when the catalog lists it; a
\* catalog without an empty skill name gives the empty mapping.
C10_EmptyTextOnlyEmptyName ==
    (pc = "matched" /\ text = <<>>) =>
        /\ Keys(skill_counts) = CatalogSkills(skills_db) \cap {<<>>}
        /\ (<<>> \notin CatalogSkills(skills_db) => skill_counts = <<>>)

\* the empty text analysed against a catalog of several non-empty skill names
C10_Witness ==
    /\ pc = "matched"
    /\ text = <<>>
    /\ <<>> \notin CatalogSkills(skills_db)
    /\ Cardinality(CatalogSkills(skills_db)) >= 2
    /\ skill_counts = <<>>

(***************************************************************************)
(* suggest_improvements called on a catalog and a counts mapping.  Only    *)
(* the keys of the mapping are read (line 56), so each key set is drawn    *)
(* once, with the value analyze_skills gives a key found once.             *)
(***************************************************************************)
RECURSIVE SeqOf(_)
SeqOf(S) ==
    IF S = {} THEN <<>>
    ELSE LET x == CHOOSE y \in S : TRUE IN <<x>> \o SeqOf(S \ {x})

PresenceCounts ==
    {[i \in 1..Cardinality(S) |-> <<SeqOf(S)[i], 1>>] : S \in SUBSET SkillNames}

InitSuggest ==
    /\ pc = "suggest"
    /\ skills_db \in Catalogs
    /\ text = <<>>
    /\ skill_counts \in PresenceCounts
    /\ suggestions = <<>>
    /\ report = <<>>
    /\ env = NoEnv
    /\ stdout = <<>>
    /\ exit_status = -1

SuggestImprovements ==
    /\ pc = "suggest"
    /\ suggestions' = suggest_improvements(skills_db, skill_counts)
    /\ pc' = "suggested"
    /\ UNCHANGED <<skills_db, text, skill_counts, report, env, stdout, exit_status>>

SpecSuggest == InitSuggest /\ [][SuggestImprovements]_vars

\* the positions of the category's skills that are keys of the mapping
PresentAt(c, counts) == {j \in DOMAIN c.skills : c.skills[j] \in Keys(counts)}

\* the positions of the category's skills that are not keys of the mapping
AbsentAt(c, counts) == DOMAIN c.skills \ PresentAt(c, counts)

\* the r-th smallest member of a set of positions
Kth(S, r) == CHOOSE j \in S : Cardinality({x \in S : x < j}) = r - 1

\* the positions of the categories with fewer than 2 skills present
SparseCategories(db, counts) ==
    {i \in DOMAIN db : Cardinality(PresentAt(db[i], counts)) < 2}

\* C3: suggest_improvements emits one suggestion for each category with fewer
\* than 2 of its skills among the keys and none for the others, in the catalog's
\* category order; with no skill present it is the "Missing" message naming the
\* first min(3, n) skills of the category, with one present the "Few" message.
C3_OneSuggestionPerSparseCategory ==
    pc = "suggested" =>
        LET sparse == SparseCategories(skills_db, skill_counts) IN
        /\ Len(suggestions) = Cardinality(sparse)
        /\ \A k \in DOMAIN suggestions :
               LET c == skills_db[Kth(sparse, k)]
                   s == suggestions[k]
               IN  /\ s.category = c.category
                   /\ IF PresentAt(c, skill_counts) = {}
                      THEN /\ s.kind = "Missing"
                           /\ s.named =
                                  Join([j \in 1..Min(3, Len(c.skills)) |-> c.skills[j]],
                                       CommaSpace)
                      ELSE s.kind = "Few"

\* two sparse categories in one catalog: the first, of 4 skills with none
\* present, gets the "Missing" message and the second gets the next suggestion
C3_Witness ==
    /\ pc = "suggested"
    /\ Len(skills_db) = 2
    /\ Len(skills_db[1].skills) = 4
    /\ Len(suggestions) = 2
    /\ suggestions[1].kind = "Missing"
    /\ suggestions[2].category = skills_db[2].category

\* a catalog whose first category has 2 skills present and gets no suggestion
\* while its second gets one
C3_WitnessSkipped ==
    /\ pc = "suggested"
    /\ Len(skills_db) = 2
    /\ Cardinality(PresentAt(skills_db[1], skill_counts)) >= 2
    /\ Len(suggestions) = 1
    /\ suggestions[1].category = skills_db[2].category

\* C4: the candidates a "Few" suggestion names are the first min(2, m) skills of
\* its category, in catalog order, that are not keys of the mapping (m of them);
\* no key of the mapping is named.
C4_FewNamesFirstAbsentSkills ==
    pc = "suggested" =>
        \A k \in DOMAIN suggestions :
            suggestions[k].kind = "Few" =>
                LET c == skills_db[CHOOSE i \in DOMAIN skills_db :
                                       skills_db[i].category = suggestions[k].category]
                    absent == AbsentAt(c, skill_counts)
                    candidates ==
                        [r \in 1..Min(2, Cardinality(absent)) |-> c.skills[Kth(absent, r)]]
                IN  /\ Range(candidates) \cap Keys(skill_counts) = {}
                    /\ suggestions[k].named = Join(candidates, CommaSpace)

\* a category of 4 skills whose first skill is the only one present: 3 are
\* absent and the suggestion names the second and third
C4_Witness ==
    /\ pc = "suggested"
    /\ \E k \in DOMAIN suggestions :
           /\ suggestions[k].kind = "Few"
           /\ \E i \in DOMAIN skills_db :
                  /\ skills_db[i].category = suggestions[k].category
                  /\ Len(skills_db[i].skills) = 4
                  /\ PresentAt(skills_db[i], skill_counts) = {1}
                  /\ suggestions[k].named =
                         Join(<<skills_db[i].skills[2], skills_db[i].skills[3]>>, CommaSpace)

(***************************************************************************)
(* generate_report called on a counts mapping and a list of suggestions.   *)
(***************************************************************************)
Counts ==
    {d \in SeqsUpTo(SkillNames \X (0..MaxCount), MaxKeys) : NoDup(KeySeq(d))}

SuggestionPool ==
    {MissingSuggestion(CategoryNames[1], <<<<"A">>, <<"a">>>>),
     FewSuggestion(CategoryNames[2], <<<<"A">>, <<"a">>>>, <<<<"A">>>>)}

SuggestionLists == SeqsUpTo(SuggestionPool, MaxSuggestions)

InitReport ==
    /\ pc = "report"
    /\ skills_db = <<>>
    /\ text = <<>>
    /\ skill_counts \in Counts
    /\ suggestions \in SuggestionLists
    /\ report = <<>>
    /\ env = NoEnv
    /\ stdout = <<>>
    /\ exit_status = -1

GenerateReport ==
    /\ pc = "report"
    /\ report' = generate_report(skill_counts, suggestions)
    /\ pc' = "reported"
    /\ UNCHANGED <<skills_db, text, skill_counts, suggestions, env, stdout, exit_status>>

SpecReport == InitReport /\ [][GenerateReport]_vars

\* the lines of the report that list a skill
SkillLinesAt(r) == {i \in DOMAIN r : r[i].kind = "Skill"}

\* C8: for a non-empty mapping generate_report lists one line per key, ordered
\* by descending count and then ascending skill name, each with the key's count
\* and with the plural "s" exactly when the count is greater than 1.
C8_SkillLinesSortedAndPluralised ==
    (pc = "reported" /\ skill_counts # <<>>) =>
        LET n == Len(skill_counts) IN
        /\ SkillLinesAt(report) = 2..(n + 1)
        /\ \A k \in Keys(skill_counts) :
               Cardinality({i \in 2..(n + 1) : report[i].skill = k}) = 1
        /\ \A i \in 2..(n + 1) :
               /\ report[i].skill \in Keys(skill_counts)
               /\ report[i].count = Get(skill_counts, report[i].skill)
               /\ report[i].suffix = "s" <=> report[i].count > 1
               /\ report[i].suffix \in {"", "s"}
        /\ \A i \in 2..n :
               \/ report[i].count > report[i + 1].count
               \/ /\ report[i].count = report[i + 1].count
                  /\ StrLess(report[i].skill, report[i + 1].skill)

\* three keys inserted in an order the sort has to change: a later key has a
\* greater count than an earlier one, two keys tie on the count, and both a
\* singular and a plural line are written
C8_Witness ==
    /\ pc = "reported"
    /\ Len(skill_counts) = 3
    /\ \E i, j \in DOMAIN skill_counts : i < j /\ skill_counts[i][2] < skill_counts[j][2]
    /\ \E i, j \in DOMAIN skill_counts :
           /\ i < j
           /\ skill_counts[i][2] = skill_counts[j][2]
           /\ StrLess(skill_counts[j][1], skill_counts[i][1])
    /\ \E i, j \in SkillLinesAt(report) : report[i].suffix = "s" /\ report[j].suffix = ""

\* C9: the two sections are chosen independently: the "no skills" line is in
\* the report exactly when the mapping is empty, the congratulatory line exactly
\* when there are no suggestions, and otherwise the SUGGESTIONS header is
\* followed by the suggestions in the given order; with both empty the report
\* holds both lines.
C9_SectionsIndependent ==
    pc = "reported" =>
        /\ (\E i \in DOMAIN report : report[i].kind = "NoSkills") <=> skill_counts = <<>>
        /\ (\E i \in DOMAIN report : report[i].kind = "GoodJob") <=> suggestions = <<>>
        /\ suggestions # <<>> =>
               \E h \in DOMAIN report :
                   /\ report[h].kind = "SuggestionsHeader"
                   /\ SubSeq(report, h + 1, Len(report)) = suggestions
        /\ (skill_counts = <<>> /\ suggestions = <<>>) =>
               /\ Len(report) = 3
               /\ report[2].kind = "NoSkills"
               /\ report[3].kind = "GoodJob"

\* a report made from an empty mapping and no suggestions
C9_Witness ==
    /\ pc = "reported"
    /\ skill_counts = <<>>
    /\ suggestions = <<>>
    /\ Len(report) = 3

(***************************************************************************)
(* main().  env holds what the run finds: `skills` is the file --skills    *)
(* names ("unset" without the flag), `db_file` is skills_db.json, `resume`  *)
(* the file the positional argument names.  A Python value is a record     *)
(* with its type; a dict or list value carries its items.                  *)
(*                                                                         *)
(* Lines 95-96 open the call ResumeAnalyzer( and never close it, so        *)
(* CPython rejects the file with a SyntaxError before any statement runs.  *)
(* env.source = "as_written" is that file; "call_closed" is the same       *)
(* tokens with the call's missing parenthesis supplied after the           *)
(* conditional expression, under which the statements of the try block     *)
(* are stepped one action per statement.                                   *)
(***************************************************************************)
None == [type |-> "None", items |-> <<>>]

Dict(items) == [type |-> "dict", items |-> items]

JsonValues ==
    {Dict(<<>>),
     Dict(<<[category |-> "Programming", type |-> "list",
             skills |-> <<<<"A">>, <<"A", "b">>>>]>>),
     Dict(<<[category |-> "Programming", type |-> "list",
             skills |-> <<<<"A">>, <<"A", "b">>>>],
            [category |-> "Data", type |-> "list",
             skills |-> <<<<"A">>, <<"b">>, <<"B", "b">>>>]>>),
     Dict(<<[category |-> "Data", type |-> "dict",
             skills |-> <<<<"A", "b">>, <<"B">>>>]>>)}

JsonFiles ==
    {[state |-> "absent", value |-> None], [state |-> "malformed", value |-> None]}
        \cup {[state |-> "json", value |-> v] : v \in JsonValues}

ResumeFiles ==
    {[state |-> "absent", pages |-> <<>>], [state |-> "corrupt", pages |-> <<>>]}
        \cup {[state |-> "pdf", pages |-> p] :
                p \in {<<>>, <<<<"A", "b">>>>, <<<<"a">>, <<"B", "b">>>>,
                       <<<<"S", "Q", "L">>>>, <<<<"b">>>>}}

Raise(message) == [raised |-> TRUE, message |-> message, value |-> None]

Return(v) == [raised |-> FALSE, message |-> "", value |-> v]

\* bool(v): None and an empty dict are false, a ResumeAnalyzer object is true
Truthy(v) ==
    CASE v.type = "None" -> FALSE
      [] v.type = "dict" -> v.items # <<>>
      [] OTHER -> TRUE

\* json.load(open(path))
JsonLoadOpen(f) ==
    CASE f.state = "absent" -> Raise("FileNotFoundError")
      [] f.state = "malformed" -> Raise("JSONDecodeError")
      [] OTHER -> Return(f.value)

\* ResumeAnalyzer.load_skills_db
load_skills_db(f) ==
    IF f.state # "absent" THEN JsonLoadOpen(f) ELSE Return(Dict(DEFAULT_SKILLS))

\* ResumeAnalyzer.__init__: the value self.skills_db gets
NewResumeAnalyzer(arg, f) ==
    IF Truthy(arg) THEN Return(arg) ELSE load_skills_db(f)

\* lines 95-96: the analyzer main goes on with
MainAnalyzer(e) ==
    IF e.skills.state # "unset"
    THEN LET loaded == JsonLoadOpen(e.skills) IN
         IF loaded.raised THEN loaded ELSE NewResumeAnalyzer(loaded.value, e.db_file)
    ELSE LET inner == NewResumeAnalyzer(None, e.db_file) IN
         IF inner.raised THEN inner
         ELSE NewResumeAnalyzer([type |-> "ResumeAnalyzer", items |-> <<>>,
                                 skills_db |-> inner.value], e.db_file)

RECURSIVE Concat(_)
Concat(pages) == IF pages = <<>> THEN <<>> ELSE Head(pages) \o Concat(Tail(pages))

\* ResumeAnalyzer.extract_text
extract_text(f) ==
    CASE f.state = "absent" -> Raise("File not found")
      [] f.state = "corrupt" -> Raise("FileDataError")
      [] OTHER -> Return(Lower(Concat(f.pages)))

\* analyze_skills raises at self.skills_db.items() unless skills_db is a dict
AnalyzeRaises(db) == db.type # "dict"

\* suggest_improvements raises at skills[:3] when the category's value is a dict
SuggestRaises(db, counts) ==
    \E i \in DOMAIN db.items :
        db.items[i].type = "dict" /\ FoundSkills(db.items[i].skills, counts) = <<>>

InitMain ==
    /\ pc = "compile"
    /\ env \in [source : {"as_written", "call_closed"},
                skills : {[state |-> "unset", value |-> None]} \cup JsonFiles,
                db_file : JsonFiles,
                resume : ResumeFiles]
    /\ skills_db = None
    /\ text = <<>>
    /\ skill_counts = <<>>
    /\ suggestions = <<>>
    /\ report = <<>>
    /\ stdout = <<>>
    /\ exit_status = -1

\* lines 104-106: print the error line and exit(1)
Except(message) ==
    /\ stdout' = Append(stdout, [kind |-> "Error", message |-> message])
    /\ exit_status' = 1
    /\ pc' = "exited"

\* the interpreter compiles the file before running it
Compile ==
    /\ pc = "compile"
    /\ IF env.source = "as_written"
       THEN /\ pc' = "exited"
            /\ exit_status' = 1
       ELSE /\ pc' = "construct"
            /\ UNCHANGED exit_status
    /\ UNCHANGED <<skills_db, text, skill_counts, suggestions, report, env, stdout>>

\* lines 95-96
MainConstruct ==
    /\ pc = "construct"
    /\ LET made == MainAnalyzer(env) IN
       IF made.raised
       THEN Except(made.message) /\ UNCHANGED skills_db
       ELSE /\ skills_db' = made.value
            /\ pc' = "extract"
            /\ UNCHANGED <<stdout, exit_status>>
    /\ UNCHANGED <<text, skill_counts, suggestions, report, env>>

\* line 98
MainExtractText ==
    /\ pc = "extract"
    /\ LET got == extract_text(env.resume) IN
       IF got.raised
       THEN Except(got.message) /\ UNCHANGED text
       ELSE /\ text' = got.value
            /\ pc' = "analyze"
            /\ UNCHANGED <<stdout, exit_status>>
    /\ UNCHANGED <<skills_db, skill_counts, suggestions, report, env>>

\* line 99
MainAnalyzeSkills ==
    /\ pc = "analyze"
    /\ IF AnalyzeRaises(skills_db)
       THEN Except("AttributeError") /\ UNCHANGED skill_counts
       ELSE /\ skill_counts' = analyze_skills(skills_db.items, text)
            /\ pc' = "announce"
            /\ UNCHANGED <<stdout, exit_status>>
    /\ UNCHANGED <<skills_db, text, suggestions, report, env>>

\* line 101
MainPrintAnalyzing ==
    /\ pc = "announce"
    /\ stdout' = Append(stdout, [kind |-> "Analyzing"])
    /\ pc' = "report"
    /\ UNCHANGED <<skills_db, text, skill_counts, suggestions, report, env, exit_status>>

\* line 102, then the end of the script
MainPrintReport ==
    /\ pc = "report"
    /\ IF SuggestRaises(skills_db, skill_counts)
       THEN Except("TypeError") /\ UNCHANGED <<suggestions, report>>
       ELSE /\ suggestions' = suggest_improvements(skills_db.items, skill_counts)
            /\ report' = generate_report(skill_counts, suggestions')
            /\ stdout' = Append(stdout, [kind |-> "Report", lines |-> report'])
            /\ exit_status' = 0
            /\ pc' = "exited"
    /\ UNCHANGED <<skills_db, text, skill_counts, env>>

NextMain ==
    \/ Compile
    \/ MainConstruct
    \/ MainExtractText
    \/ MainAnalyzeSkills
    \/ MainPrintAnalyzing
    \/ MainPrintReport

SpecMain == InitMain /\ [][NextMain]_vars

Last(q) == q[Len(q)]

\* the value is a dict whose every item is a list of skills
IsCatalog(v) ==
    /\ v.type = "dict"
    /\ \A i \in DOMAIN v.items : v.items[i].type = "list"

\* every catalog file the run can read holds a category-to-skill-list mapping
FilesHoldCatalogs(e) ==
    /\ e.skills.state = "json" => IsCatalog(e.skills.value)
    /\ e.db_file.state = "json" => IsCatalog(e.db_file.value)

\* C5: once the analyzer is built, skills_db is a category-to-skill-list
\* mapping chosen by precedence: the catalog supplied with --skills whenever one
\* is supplied, else the content of skills_db.json when that file exists, else
\* DEFAULT_SKILLS.
C5_CatalogPrecedence ==
    (pc = "extract" /\ FilesHoldCatalogs(env)) =>
        /\ IsCatalog(skills_db)
        /\ env.skills.state = "json" => skills_db = env.skills.value
        /\ env.skills.state = "unset" =>
               skills_db = IF env.db_file.state = "json"
                           THEN env.db_file.value
                           ELSE Dict(DEFAULT_SKILLS)

\* the resume exists and decodes and the catalog loads, with or without --skills
RunCanSucceed(e) ==
    /\ e.resume.state = "pdf"
    /\ \/ e.skills.state = "json" /\ IsCatalog(e.skills.value)
       \/ e.skills.state = "unset" /\ e.db_file.state = "absent"
       \/ e.skills.state = "unset" /\ e.db_file.state = "json" /\ IsCatalog(e.db_file.value)

\* some step of the run fails: a file is missing, malformed or undecodable
RunMustFail(e) ==
    \/ e.resume.state \in {"absent", "corrupt"}
    \/ e.skills.state \in {"absent", "malformed"}
    \/ e.skills.state = "unset" /\ e.db_file.state = "malformed"

\* C6: a run of main ends in one of two ways: when the resume decodes and the
\* catalog loads it has printed the report and exits with status 0; when a step
\* fails it has printed the "Error: " line and exits with a non-zero status.
C6_ReportOrError ==
    pc = "exited" =>
        /\ RunCanSucceed(env) =>
               /\ exit_status = 0
               /\ stdout # <<>>
               /\ Last(stdout).kind = "Report"
        /\ RunMustFail(env) =>
               /\ exit_status # 0
               /\ stdout # <<>>
               /\ Last(stdout).kind = "Error"

\* C7: a run that ends with the error line and a non-zero status has written
\* nothing to standard output before the error line.
C7_NothingPrintedBeforeError ==
    (pc = "exited" /\ exit_status # 0 /\ stdout # <<>> /\ Last(stdout).kind = "Error") =>
        Len(stdout) = 1

====
